---- MODULE Spec2Model ----
(***************************************************************************)
(* Model of server.js, the Nepalify relay: three HTTP handlers             *)
(* (POST /api/transliterate, POST /api/unicode, GET /api/tts) that forward *)
(* a text to an upstream service and reshape the reply.                    *)
(*                                                                         *)
(* Each handler is an async function: it runs atomically up to an `await`  *)
(* of an upstream call and is resumed, atomically again, when that call    *)
(* resolves or rejects.  Several requests may be in flight at once.        *)
(*                                                                         *)
(* Strings are sequences of one-character strings, so that substitution,   *)
(* trimming and URL encoding are computed character by character.          *)
(***************************************************************************)
EXTENDS Integers, Sequences, FiniteSets, TLC

VARIABLES
    model,    \* whether a generative model is configured (server.js:18-19)
    nreq,     \* number of requests received so far
    req,      \* req[r]: the request as received (route, text, mode)
    pc,       \* pc[r]: position of the handler of request r
    text,     \* text[r]: the handler's local variable `text`
    calls,    \* calls[r]: the upstream calls issued for r, in order
    replies,  \* replies[r]: the outcomes of those calls, in order
    resp      \* resp[r]: the responses sent for r, in order

vars == <<model, nreq, req, pc, text, calls, replies, resp>>

(***************************************************************************)
(* Bounds                                                                  *)
(***************************************************************************)
\* number of requests handled (concurrently) in a behaviour of Spec
NumReqs == 2
\* longest request text of the single-request specification SpecPre
MaxLen == 4

Reqs == 1..NumReqs

(***************************************************************************)
(* JavaScript values, as far as the handlers inspect them                  *)
(***************************************************************************)
Undef == [t |-> "undefined"]
Null == [t |-> "null"]
Str(s) == [t |-> "string", s |-> s]
Num(n) == [t |-> "number", n |-> n]
Arr(a) == [t |-> "array", a |-> a]

\* ToBoolean: what `if (v)` and `v && ...` test
Truthy(v) ==
    CASE v.t = "undefined" -> FALSE
      [] v.t = "null" -> FALSE
      [] v.t = "string" -> v.s # <<>>
      [] v.t = "number" -> v.n # 0
      [] OTHER -> TRUE

\* `v[i]` raises a TypeError exactly when v is undefined or null
CanIndex(v) == v.t \notin {"undefined", "null"}

\* `v[i]` for a value that can be indexed (i counts from 0)
Get(v, i) ==
    CASE v.t = "array" -> IF i < Len(v.a) THEN v.a[i + 1] ELSE Undef
      [] v.t = "string" -> IF i < Len(v.s) THEN Str(<<v.s[i + 1]>>) ELSE Undef
      [] OTHER -> Undef

\* decimal digits of a small natural number
Digit(n) == <<"0", "1", "2", "3", "4", "5", "6", "7", "8", "9">>[n + 1]

\* JsToString, as template literals and encodeURIComponent apply it
JsToString(v) ==
    CASE v.t = "string" -> v.s
      [] v.t = "number" -> <<Digit(v.n)>>
      [] v.t = "null" -> <<"n", "u", "l", "l">>
      [] OTHER -> <<"u", "n", "d", "e", "f", "i", "n", "e", "d">>

(***************************************************************************)
(* String functions                                                        *)
(***************************************************************************)
RECURSIVE Flatten(_)
Flatten(ss) == IF ss = <<>> THEN <<>> ELSE Head(ss) \o Flatten(Tail(ss))

\* the folding a case-sensitive regular expression would apply
FoldExact(c) == c

\* case folding of the /i flag, on the letters the patterns contain
Fold(c) ==
    CASE c = "X" -> "x"
      [] c = "H" -> "h"
      [] c = "A" -> "a"
      [] c = "C" -> "c"
      [] OTHER -> c

\* whether pattern pat matches s at its first character, under the /i flag
MatchesAt(s, pat) ==
    /\ Len(s) >= Len(pat)
    /\ \A i \in 1..Len(pat) : Fold(s[i]) = pat[i]

\* String.prototype.replace with a global pattern of literal characters:
\* leftmost matches, not overlapping, each replaced by rep
RECURSIVE ReplaceAll(_, _, _)
ReplaceAll(s, pat, rep) ==
    IF s = <<>> THEN <<>>
    ELSE IF MatchesAt(s, pat)
         THEN rep \o ReplaceAll(SubSeq(s, Len(pat) + 1, Len(s)), pat, rep)
         ELSE <<Head(s)>> \o ReplaceAll(Tail(s), pat, rep)

\* the replacements table of /api/unicode, in its order
replacements ==
    << [pattern |-> <<"x", "h", "a">>, replacement |-> <<"c", "h", "h", "a">>],
       [pattern |-> <<"x", "a">>, replacement |-> <<"c", "h", "h", "a">>],
       [pattern |-> <<"c", "h", "a">>, replacement |-> <<"c", "h", "h", "a">>] >>

\* replacements.forEach(... text = text.replace(pattern, replacement)): the
\* text after each replacement is bound as a value (x) before the next one
\* is applied to it
RECURSIVE ApplyReplacements(_, _)
ApplyReplacements(s, rs) ==
    IF rs = <<>> THEN s
    ELSE CHOOSE out \in
             {ApplyReplacements(x, Tail(rs)) :
                 x \in {ReplaceAll(s, Head(rs).pattern, Head(rs).replacement)}} : TRUE

\* white space as String.prototype.trim sees it
WhiteSpace == {" ", "\n", "\t"}

RECURSIVE TrimStart(_)
TrimStart(s) ==
    IF s # <<>> /\ Head(s) \in WhiteSpace THEN TrimStart(Tail(s)) ELSE s

RECURSIVE TrimEnd(_)
TrimEnd(s) ==
    IF s # <<>> /\ s[Len(s)] \in WhiteSpace
    THEN TrimEnd(SubSeq(s, 1, Len(s) - 1))
    ELSE s

\* String.prototype.trim
Trim(s) == TrimEnd(TrimStart(s))

\* characters encodeURIComponent leaves as they are (those the model uses)
Unreserved ==
    {"a", "c", "h", "n", "x", "A", "C", "H", "X", "N", "M",
     "0", "1", "2", "3", "4", "5", "6", "7", "8", "9"}

\* the percent-encoding of one character
EncodeChar(c) ==
    CASE c \in Unreserved -> <<c>>
      [] c = " " -> <<"%", "2", "0">>
      [] c = "\n" -> <<"%", "0", "A">>
      [] c = "\t" -> <<"%", "0", "9">>
      [] OTHER -> <<"%", c>>

\* encodeURIComponent(v): the argument is converted to a string first
EncodeURIComponent(v) ==
    LET s == JsToString(v) IN Flatten([i \in 1..Len(s) |-> EncodeChar(s[i])])

(***************************************************************************)
(* Requests, upstream outcomes and responses                               *)
(***************************************************************************)
\* the string 'ai'
ModeAi == Str(<<"a", "i">>)

\* values of body.mode: 'ai', or absent (any value other than 'ai' behaves
\* like absent)
Modes == {ModeAi, Undef}

\* values of body.text in Spec: absent, empty, a string (with a pattern in
\* upper case and a space), and a value that is not a string
Texts ==
    {Undef, Str(<<>>), Str(<<"X", "a", " ", "n">>), Num(7)}

\* values of query.text of GET /api/tts: a query parameter is absent or a
\* string
QueryTexts == {Undef, Str(<<>>), Str(<<"X", "a", " ", "n">>)}

\* a call that rejects (network error, non-2xx status)
Throw == [t |-> "throw", message |-> "Network Error"]
\* a call that resolves with response.data = d
Ok(d) == [t |-> "ok", data |-> d]
\* generateContent resolves, but response.text() throws (blocked reply)
Blocked == [t |-> "blocked", message |-> "Text not available"]

\* outcomes of GET translate_a/single: rejected; no data; data without
\* data[0]; data[0] that is no array; a null segment; three segments, the
\* second without text
GtxOutcomes ==
    { Throw,
      Ok(Null),
      Ok(Arr(<<>>)),
      Ok(Str(<<"N">>)),
      Ok(Arr(<<Arr(<<Null>>)>>)),
      Ok(Arr(<<Arr(<<Arr(<<Str(<<"N", " ">>), Str(<<"n">>)>>),
                    Arr(<<Null, Null>>),
                    Arr(<<Str(<<"M">>)>>)>>)>>)) }

Success == Str(<<"S">>)

\* outcomes of GET inputtools request: rejected; no data; no data[1]; no
\* data[1][0][1]; an empty suggestion list; two suggestions
InputToolsOutcomes ==
    { Throw,
      Ok(Null),
      Ok(Arr(<<Success>>)),
      Ok(Arr(<<Success, Arr(<<Arr(<<Str(<<"n">>)>>)>>)>>)),
      Ok(Arr(<<Success, Arr(<<Arr(<<Str(<<"n">>), Arr(<<>>)>>)>>)>>)),
      Ok(Arr(<<Success,
               Arr(<<Arr(<<Str(<<"n">>),
                           Arr(<<Str(<<"N", " ">>), Str(<<"M">>)>>)>>)>>)>>)) }

\* outcomes of model.generateContent and response.text(): rejected; text()
\* throws; a text with white space around and inside; white space alone
AiOutcomes ==
    { Throw,
      Blocked,
      Ok(Str(<<" ", "N", " ", "M", "\n">>)),
      Ok(Str(<<"\n">>)) }

\* outcomes of GET translate_tts: rejected, or an audio stream
TtsOutcomes == {Throw, Ok(Str(<<"M">>))}

\* res.json(body), res.status(s).json(body)
Json(status, body) == [status |-> status, type |-> "json", body |-> body]
\* res.status(s).send(string)
Send(status, body) == [status |-> status, type |-> "text", body |-> body]
\* res.set('Content-Type', 'audio/mpeg'); stream.pipe(res)
Pipe(stream) == [status |-> 200, type |-> "audio/mpeg", body |-> stream]

\* a catch block that forgets the status
ServerErrorOk(message) == Json(200, [error |-> "Server Error", details |-> message])
\* the catch blocks of the JSON endpoints
ServerError(message) == Json(500, [error |-> "Server Error", details |-> message])

\* the idle slot of a request that has not arrived
NoRequest == [route |-> "none", text |-> Undef, mode |-> Undef]

\* the template literal of the prompt: a fixed head, the text, a quote
PromptHead == "Convert this Romanized Nepali text to Nepali script. ... Input: "
Prompt(t) == <<PromptHead, "\"">> \o JsToString(t) \o <<"\"">>

(***************************************************************************)
(* Initial state: the server is listening, no request has arrived          *)
(***************************************************************************)
Init ==
    /\ model \in BOOLEAN
    /\ nreq = 0
    /\ req = [r \in Reqs |-> NoRequest]
    /\ pc = [r \in Reqs |-> "idle"]
    /\ text = [r \in Reqs |-> Undef]
    /\ calls = [r \in Reqs |-> <<>>]
    /\ replies = [r \in Reqs |-> <<>>]
    /\ resp = [r \in Reqs |-> <<>>]

(***************************************************************************)
(* Steps shared by the handlers                                            *)
(***************************************************************************)
\* a request arrives and gets the next slot
Arrive(r, route, t, m) ==
    /\ nreq < NumReqs
    /\ r = nreq + 1
    /\ nreq' = r
    /\ req' = [req EXCEPT ![r] = [route |-> route, text |-> t, mode |-> m]]

\* a response sent twice
RespondTwice(r, response) ==
    resp' = [resp EXCEPT ![r] = Append(Append(@, response), response)]

\* return res...: the response is sent and the handler ends
Respond(r, response) ==
    resp' = [resp EXCEPT ![r] = Append(@, response)]

\* an upstream call issued twice
ApiGetTwice(r, svc, arg) ==
    calls' = [calls EXCEPT ![r] =
                 Append(Append(@, [svc |-> svc, arg |-> arg]), [svc |-> svc, arg |-> arg])]

\* await apiClient.get(url), await model.generateContent(prompt): the call
\* is issued and the handler waits
ApiGet(r, svc, arg) ==
    calls' = [calls EXCEPT ![r] = Append(@, [svc |-> svc, arg |-> arg])]

\* the awaited call of r settles with outcome o
Settle(r, o) ==
    replies' = [replies EXCEPT ![r] = Append(@, o)]

\* a test that misses the empty string
FalsyUndefinedOnly(v) == v.t = "undefined"

\* `if (!text)`
Falsy(v) == ~Truthy(v)

(***************************************************************************)
(* POST /api/transliterate                                                 *)
(***************************************************************************)
\* Array.prototype.join(''): undefined and null elements give ''
RECURSIVE Join(_)
Join(vs) ==
    IF vs = <<>> THEN <<>>
    ELSE (IF Head(vs).t \in {"undefined", "null"} THEN <<>> ELSE JsToString(Head(vs)))
         \o Join(Tail(vs))

\* response.data[0].map(segment => segment[0]).join('')
TransliterateResult(d0) ==
    Str(Join([i \in 1..Len(d0.a) |-> Get(d0.a[i], 0)]))

\* the handler up to `await apiClient.get(googleUrl)`
TransliterateReceive(t) ==
    \E r \in Reqs :
        /\ Arrive(r, "transliterate", t, Undef)
        /\ text' = [text EXCEPT ![r] = t]
        /\ IF Falsy(t)
           THEN /\ Respond(r, Json(200, [result |-> Str(<<>>)]))
                /\ pc' = [pc EXCEPT ![r] = "done"]
                /\ UNCHANGED calls
           ELSE /\ ApiGet(r, "translate", EncodeURIComponent(t))
                /\ pc' = [pc EXCEPT ![r] = "await_translate"]
                /\ UNCHANGED resp
        /\ UNCHANGED <<model, replies>>

\* the handler from the settled call to its return
TransliterateResume(r, o) ==
    /\ pc[r] = "await_translate"
    /\ Settle(r, o)
    /\ pc' = [pc EXCEPT ![r] = "done"]
    /\ IF o.t # "ok"
       THEN Respond(r, ServerError(o.message))
       ELSE IF Truthy(o.data) /\ Truthy(Get(o.data, 0))
            THEN LET d0 == Get(o.data, 0) IN
                 IF d0.t = "array" /\ \A i \in 1..Len(d0.a) : CanIndex(d0.a[i])
                 THEN Respond(r, Json(200, [result |-> TransliterateResult(d0)]))
                 ELSE Respond(r, ServerError("TypeError"))
            ELSE Respond(r, Json(500, [error |-> "Failed to fetch from Google"]))
    /\ UNCHANGED <<model, nreq, req, text, calls>>

(***************************************************************************)
(* POST /api/unicode                                                       *)
(***************************************************************************)
\* the AI branch taken without looking at the model
UseAiAnyModel(m) == m = ModeAi

\* `mode === 'ai' && model`
UseAi(m) == m = ModeAi /\ model

\* the local variable `text` read from the slot of the first request
LocalTextShared(r) == text[1]

\* the local variable `text` of the handler of r, read after an await
LocalText(r) == text[r]

\* a suggestion list read at the wrong index
FirstSuggestionSecond(data) == Get(Get(Get(Get(data, 1), 0), 1), 1)

\* response.data[1][0][1][0]
FirstSuggestion(data) == Get(Get(Get(Get(data, 1), 0), 1), 0)

\* the shape test of the Input Tools reply
HasSuggestions(data) ==
    /\ Truthy(data)
    /\ Truthy(Get(data, 1))
    /\ Truthy(Get(Get(data, 1), 0))
    /\ Truthy(Get(Get(Get(data, 1), 0), 1))

\* response.text().trim()
AiResult(s) == Str(Trim(s))

\* the standard mode, from `try {` to `await apiClient.get(inputToolsUrl)`,
\* entered with cur as the value of `text`: a value without a replace
\* method raises a TypeError, which the catch block answers
StandardMode(r, cur) ==
    IF cur.t = "string"
    THEN \E sent \in {Str(ApplyReplacements(cur.s, replacements))} :
         \E q \in {EncodeURIComponent(sent)} :
             /\ text' = [text EXCEPT ![r] = sent]
             /\ ApiGet(r, "inputtools", q)
             /\ pc' = [pc EXCEPT ![r] = "await_inputtools"]
             /\ UNCHANGED resp
    ELSE /\ text' = [text EXCEPT ![r] = cur]
         /\ Respond(r, ServerError("TypeError"))
         /\ pc' = [pc EXCEPT ![r] = "done"]
         /\ UNCHANGED calls

\* the handler up to its first await
UnicodeReceive(t, m) ==
    \E r \in Reqs :
        /\ Arrive(r, "unicode", t, m)
        /\ IF Falsy(t)
           THEN /\ text' = [text EXCEPT ![r] = t]
                /\ Respond(r, Json(200, [result |-> Str(<<>>)]))
                /\ pc' = [pc EXCEPT ![r] = "done"]
                /\ UNCHANGED calls
           ELSE IF UseAi(m)
                THEN /\ text' = [text EXCEPT ![r] = t]
                     /\ ApiGet(r, "gemini", Prompt(t))
                     /\ pc' = [pc EXCEPT ![r] = "await_gemini"]
                     /\ UNCHANGED resp
                ELSE StandardMode(r, t)
        /\ UNCHANGED <<model, replies>>

\* the handler from the settled generateContent to its return or to the
\* await of the standard mode
UnicodeAiResume(r, o) ==
    /\ pc[r] = "await_gemini"
    /\ Settle(r, o)
    /\ IF o.t = "ok"
       THEN /\ Respond(r, Json(200, [result |-> AiResult(o.data.s)]))
            /\ pc' = [pc EXCEPT ![r] = "done"]
            /\ UNCHANGED <<text, calls>>
       ELSE StandardMode(r, LocalText(r))
    /\ UNCHANGED <<model, nreq, req>>

\* the handler from the settled Input Tools call to its return
UnicodeResume(r, o) ==
    /\ pc[r] = "await_inputtools"
    /\ Settle(r, o)
    /\ pc' = [pc EXCEPT ![r] = "done"]
    /\ IF o.t # "ok"
       THEN Respond(r, ServerError(o.message))
       ELSE IF HasSuggestions(o.data)
            THEN Respond(r, Json(200, [result |-> FirstSuggestion(o.data)]))
            ELSE Respond(r, Json(500, [error |-> "Failed to fetch from Google Input Tools"]))
    /\ UNCHANGED <<model, nreq, req, text, calls>>

(***************************************************************************)
(* GET /api/tts                                                            *)
(***************************************************************************)
\* the handler up to `await apiClient.get(googleTtsUrl, ...)`
TtsReceive(t) ==
    \E r \in Reqs :
        /\ Arrive(r, "tts", t, Undef)
        /\ text' = [text EXCEPT ![r] = t]
        /\ IF Falsy(t)
           THEN /\ Respond(r, Send(400, "Missing text parameter"))
                /\ pc' = [pc EXCEPT ![r] = "done"]
                /\ UNCHANGED calls
           ELSE /\ ApiGet(r, "tts", EncodeURIComponent(t))
                /\ pc' = [pc EXCEPT ![r] = "await_tts"]
                /\ UNCHANGED resp
        /\ UNCHANGED <<model, replies>>

\* the handler from the settled call to its end
TtsResume(r, o) ==
    /\ pc[r] = "await_tts"
    /\ Settle(r, o)
    /\ pc' = [pc EXCEPT ![r] = "done"]
    /\ IF o.t = "ok"
       THEN Respond(r, Pipe(o.data))
       ELSE Respond(r, Send(500, "Error fetching audio"))
    /\ UNCHANGED <<model, nreq, req, text, calls>>

(***************************************************************************)
(* The server: requests arrive and awaited calls settle in any order       *)
(***************************************************************************)
Resume(r) ==
    \/ \E o \in GtxOutcomes : TransliterateResume(r, o)
    \/ \E o \in AiOutcomes : UnicodeAiResume(r, o)
    \/ \E o \in InputToolsOutcomes : UnicodeResume(r, o)
    \/ \E o \in TtsOutcomes : TtsResume(r, o)

Next ==
    \/ \E t \in Texts : TransliterateReceive(t)
    \/ \E t \in Texts, m \in Modes : UnicodeReceive(t, m)
    \/ \E t \in QueryTexts : TtsReceive(t)
    \/ \E r \in Reqs, o \in GtxOutcomes : TransliterateResume(r, o)
    \/ \E r \in Reqs, o \in AiOutcomes : UnicodeAiResume(r, o)
    \/ \E r \in Reqs, o \in InputToolsOutcomes : UnicodeResume(r, o)
    \/ \E r \in Reqs, o \in TtsOutcomes : TtsResume(r, o)

Spec == Init /\ [][Next]_vars

\* every awaited call eventually settles and its handler is resumed
LiveSpec == Spec /\ \A r \in Reqs : WF_vars(Resume(r))

(***************************************************************************)
(* SpecPre: one /api/unicode request in standard mode, its text drawn from *)
(* every string of at most MaxLen letters of the patterns (in both cases)  *)
(* and one other letter                                                    *)
(***************************************************************************)
PreAlphabet == {"x", "h", "a", "c", "X", "H", "A", "C", "n"}

PreTexts == UNION {[1..k -> PreAlphabet] : k \in 0..MaxLen}

PreOutcomes == {Throw, Ok(Arr(<<Success, Arr(<<Arr(<<Str(<<"n">>), Arr(<<Str(<<"N">>)>>)>>)>>)>>))}

PreUnicodeReceive == nreq = 0 /\ \E t \in PreTexts : UnicodeReceive(Str(t), Undef)

PreUnicodeResume(o) == UnicodeResume(1, o)

NextPre ==
    \/ PreUnicodeReceive
    \/ \E o \in PreOutcomes : PreUnicodeResume(o)

SpecPre == Init /\ [][NextPre]_vars

(***************************************************************************)
(* Vocabulary of the properties                                            *)
(***************************************************************************)
Arrived == {r \in Reqs : pc[r] # "idle"}
Answered == {r \in Reqs : pc[r] = "done"}

\* the calls of r to service svc, as indices into calls[r]
CallsTo(r, svc) == {i \in 1..Len(calls[r]) : calls[r][i].svc = svc}

Chha == <<"c", "h", "h", "a">>

\* lower case of the letters of the alphabet of SpecPre
Lower(c) ==
    IF c = "X" THEN "x" ELSE IF c = "H" THEN "h" ELSE IF c = "A" THEN "a"
    ELSE IF c = "C" THEN "c" ELSE c

LowerAll(s) == [i \in 1..Len(s) |-> Lower(s[i])]

\* the places where pat occurs in s, whatever the letter case
Occ(s, pat) ==
    {i \in 1..(Len(s) - Len(pat) + 1) :
        \A j \in 1..Len(pat) : Lower(s[i + j - 1]) = pat[j]}

\* s with every occurrence of pat replaced by 'chha', position by position:
\* no occurrence of one of the three patterns overlaps another of the same
\* pattern, since each starts with a letter it holds only once
Subst(s, pat) ==
    LET occ == Occ(s, pat) IN
    Flatten([i \in 1..Len(s) |->
        IF i \in occ THEN Chha
        ELSE IF \E k \in occ : k < i /\ i < k + Len(pat) THEN <<>>
        ELSE <<s[i]>>])

\* C8: in standard mode the text sent to Input Tools is the request text
\* after 'xha' -> 'chha', then 'xa' -> 'chha', then 'cha' -> 'chha', each
\* global and case-insensitive, all other characters unchanged; 'xa', 'xha'
\* and 'cha' in any letter case and 'chha' are sent as 'chha', and a text
\* with none of the patterns is sent unchanged.
C8_Substitution ==
    \A r \in Reqs : \A i \in CallsTo(r, "inputtools") :
        LET s == req[r].text.s
            sent == text[r].s
        IN /\ calls[r][i].arg = EncodeURIComponent(Str(sent))
           /\ sent = Subst(Subst(Subst(s, <<"x", "h", "a">>), <<"x", "a">>),
                           <<"c", "h", "a">>)
           /\ LowerAll(s) \in {<<"x", "a">>, <<"x", "h", "a">>, <<"c", "h", "a">>}
                  => sent = Chha
           /\ s = Chha => sent = Chha
           /\ (Occ(s, <<"x", "h", "a">>) \cup Occ(s, <<"x", "a">>)
                   \cup Occ(s, <<"c", "h", "a">>) = {}) => sent = s

\* an upper-case 'XHa' inside a longer text was sent as 'chha'
C8_Witness ==
    \E r \in Reqs :
        /\ req[r].text = Str(<<"n", "X", "H", "a">>)
        /\ CallsTo(r, "inputtools") # {}
        /\ calls[r][1].arg = <<"n", "c", "h", "h", "a">>

(***************************************************************************)
(* Properties of Spec and LiveSpec                                         *)
(***************************************************************************)
\* the response of an answered request
Response(r) == resp[r][1]

\* the outcome of the last call of r
LastReply(r) == replies[r][Len(replies[r])]

\* the request of r is for one of the two JSON endpoints
IsJson(r) == req[r].route \in {"transliterate", "unicode"}

\* r is an /api/unicode request that meets the three conditions of AI mode
AiRequest(r) ==
    /\ req[r].route = "unicode"
    /\ Truthy(req[r].text)
    /\ req[r].mode = ModeAi
    /\ model

\* t is s without its leading and trailing white space
IsTrimOf(t, s) ==
    \E i \in 0..Len(s), j \in 0..Len(s) :
        /\ i + j <= Len(s)
        /\ t = SubSeq(s, i + 1, Len(s) - j)
        /\ \A k \in 1..i : s[k] \in WhiteSpace
        /\ \A k \in (Len(s) - j + 1)..Len(s) : s[k] \in WhiteSpace
        /\ t # <<>> => (t[1] \notin WhiteSpace /\ t[Len(t)] \notin WhiteSpace)

\* the texts of the segments of data[0], one after the other
SegmentTexts(d0) ==
    Flatten([i \in 1..Len(d0.a) |->
        IF Len(d0.a[i].a) >= 1 /\ d0.a[i].a[1].t = "string"
        THEN d0.a[i].a[1].s ELSE <<>>])

\* the first entry of the suggestion list data[1][0][1], if it has one
Suggestion(data) ==
    LET list == data.a[2].a[1].a[2].a IN
    IF Len(list) >= 1 THEN list[1] ELSE Undef

C2_ExactlyOneResponse ==
    /\ [](\A r \in Reqs : Len(resp[r]) <= 1 /\ (pc[r] = "done" <=> Len(resp[r]) = 1))
    /\ \A r \in Reqs : (pc[r] # "idle") ~> (Len(resp[r]) = 1)

\* a request answered once after the AI call failed and the fallback ran
C2_Witness ==
    \E r \in Answered : Len(calls[r]) = 2 /\ Len(resp[r]) = 1

\* C3 as claimed: a request one of whose upstream calls failed is answered
\* with status 500, never 200.
C3_FailureIs500 ==
    \A r \in Answered :
        (\E i \in 1..Len(replies[r]) : replies[r][i].t # "ok")
            => Response(r).status = 500

\* C3 as amended: a failed translation, Input Tools or speech call is
\* answered with status 500; a failed generative-model call is not answered
\* by itself: the request is then answered 200 exactly when the Input Tools
\* call of the fallback yields a suggestion list, and 500 otherwise.
C3_FailureHandling ==
    \A r \in Answered :
        /\ (\E i \in 1..Len(replies[r]) :
                calls[r][i].svc # "gemini" /\ replies[r][i].t # "ok")
              => Response(r).status = 500
        /\ (\E i \in 1..Len(replies[r]) :
                calls[r][i].svc = "gemini" /\ replies[r][i].t # "ok")
              => /\ Response(r).status \in {200, 500}
                 /\ Response(r).status = 200 <=>
                      /\ Len(calls[r]) = 2
                      /\ replies[r][2].t = "ok"
                      /\ HasSuggestions(replies[r][2].data)

\* a failed translation call answered 500 and a failed model call answered
\* 200
C3_Witness ==
    \E r1, r2 \in Answered :
        /\ calls[r1] # <<>> /\ calls[r2] # <<>>
        /\ calls[r1][1].svc = "translate" /\ replies[r1][1].t = "throw"
        /\ Response(r1).status = 500
        /\ calls[r2][1].svc = "gemini" /\ replies[r2][1].t # "ok"
        /\ Response(r2).status = 200

\* C4 as claimed: the result of a 200 response to a non-empty request is the
\* upstream field unchanged: data[1][0][1][0] of Input Tools, the generated
\* text of the model, the segment texts data[0][i][0] of the translation.
C4_Verbatim ==
    \A r \in Answered :
        (IsJson(r) /\ Truthy(req[r].text) /\ Response(r).status = 200) =>
            LET svc == calls[r][Len(calls[r])].svc
                res == Response(r).body.result
            IN /\ svc = "inputtools" => res = Suggestion(LastReply(r).data)
               /\ svc = "gemini" => res = LastReply(r).data
               /\ svc = "translate" => res = Str(SegmentTexts(LastReply(r).data.a[1]))

\* C4 as amended: the same, but the generated text of the model is
\* forwarded without its leading and trailing white space.
C4_Forwarded ==
    \A r \in Answered :
        (IsJson(r) /\ Truthy(req[r].text) /\ Response(r).status = 200) =>
            LET svc == calls[r][Len(calls[r])].svc
                res == Response(r).body.result
            IN /\ svc = "inputtools" => res = Suggestion(LastReply(r).data)
               /\ svc = "gemini" =>
                    (res.t = "string" /\ IsTrimOf(res.s, LastReply(r).data.s))
               /\ svc = "translate" => res = Str(SegmentTexts(LastReply(r).data.a[1]))

\* a generated text answered without the white space around it, and a
\* suggestion answered with the space it ends with
C4_Witness ==
    \E r1, r2 \in Answered :
        /\ calls[r1] # <<>> /\ calls[r2] # <<>>
        /\ calls[r1][1].svc = "gemini" /\ replies[r1][1].t = "ok"
        /\ Response(r1).body.result = Str(<<"N", " ", "M">>)
        /\ calls[r2][1].svc = "inputtools" /\ Response(r2).status = 200
        /\ Response(r2).body.result = Str(<<"N", " ">>)

\* the argument a call of r to svc carries when it is built from the
\* request of r alone
OwnArg(r, svc) ==
    LET t == req[r].text IN
    CASE svc = "gemini" -> <<PromptHead, "\"">> \o JsToString(t) \o <<"\"">>
      [] svc = "inputtools" ->
            EncodeURIComponent(Str(
                Subst(Subst(Subst(JsToString(t), <<"x", "h", "a">>), <<"x", "a">>),
                      <<"c", "h", "a">>)))
      [] OTHER -> EncodeURIComponent(t)

\* C5: no state is carried across requests and nothing is cached: whatever
\* the interleaving, every call of a request is built from that request's
\* own text, two requests with the same inputs and the same replies to
\* their own calls get the same response, and a request with a non-empty
\* text is answered only after a call of its own has settled, also when an
\* identical request was answered before.
C5_NoSharedState ==
    /\ \A r \in Arrived : \A i \in 1..Len(calls[r]) :
            calls[r][i].arg = OwnArg(r, calls[r][i].svc)
    /\ \A r1, r2 \in Answered :
            (req[r1] = req[r2] /\ replies[r1] = replies[r2])
                => (resp[r1] = resp[r2] /\ calls[r1] = calls[r2])
    /\ \A r \in Answered :
            (Truthy(req[r].text) /\ req[r].text.t = "string")
                => (Len(calls[r]) >= 1 /\ Len(replies[r]) = Len(calls[r]))

\* two identical requests, the second arriving while the first is in
\* flight or answered, each made its own calls and got its own response
C5_Witness ==
    \E r1, r2 \in Answered :
        /\ r1 < r2
        /\ req[r1] = req[r2]
        /\ calls[r1] = calls[r2] /\ Len(calls[r1]) = 2
        /\ replies[r1] # replies[r2]
        /\ resp[r1] # resp[r2]

\* C6: in /api/unicode the model is called iff the text is non-empty, the
\* mode is 'ai' and a model is configured; the call comes first and carries
\* the text as received.  If it succeeds the answer is 200 with the text of
\* the model (trimmed) and Input Tools is never called; if it fails the
\* calls and the response are those of a standard-mode request with the
\* same text and the same Input Tools reply.
C6_AiMode ==
    \A r \in Arrived :
        /\ (CallsTo(r, "gemini") # {}) <=> AiRequest(r)
        /\ CallsTo(r, "gemini") \subseteq {1}
        /\ AiRequest(r) =>
              LET arg == calls[r][1].arg IN
              SubSeq(arg, 3, Len(arg) - 1) = JsToString(req[r].text)
        /\ (AiRequest(r) /\ r \in Answered /\ replies[r][1].t = "ok") =>
              /\ Len(calls[r]) = 1
              /\ Response(r).status = 200
              /\ Response(r).type = "json"
              /\ Response(r).body.result.t = "string"
              /\ IsTrimOf(Response(r).body.result.s, replies[r][1].data.s)
        /\ \A r2 \in Answered :
              ( /\ AiRequest(r) /\ r \in Answered /\ replies[r][1].t # "ok"
                /\ req[r2].route = "unicode"
                /\ req[r2].text = req[r].text
                /\ CallsTo(r2, "gemini") = {}
                /\ replies[r2] = Tail(replies[r]) )
              => (resp[r2] = resp[r] /\ calls[r2] = Tail(calls[r]))

\* a request whose model call failed and a standard-mode request with the
\* same text, both answered 200 from the same Input Tools reply
C6_Witness ==
    \E r1, r2 \in Answered :
        /\ AiRequest(r1) /\ replies[r1][1].t # "ok"
        /\ req[r2].route = "unicode" /\ req[r2].text = req[r1].text
        /\ CallsTo(r2, "gemini") = {}
        /\ replies[r2] = Tail(replies[r1])
        /\ Response(r1).status = 200
        /\ resp[r2] = resp[r1]

\* C7: a request whose text is missing or empty is answered without any
\* upstream call: 200 {result: ''} by the JSON endpoints (whatever the
\* mode and the model), 400 'Missing text parameter' by /api/tts.
C7_EmptyText ==
    \A r \in Arrived :
        req[r].text \in {Undef, Str(<<>>)} =>
            /\ r \in Answered
            /\ calls[r] = <<>>
            /\ replies[r] = <<>>
            /\ resp[r] = << IF req[r].route = "tts"
                            THEN [status |-> 400, type |-> "text",
                                  body |-> "Missing text parameter"]
                            ELSE [status |-> 200, type |-> "json",
                                  body |-> [result |-> Str(<<>>)]] >>

\* an empty text in AI mode with a model configured, and a /api/tts request
\* without text
C7_Witness ==
    \E r1, r2 \in Answered :
        /\ req[r1].route = "unicode" /\ req[r1].text = Str(<<>>)
        /\ req[r1].mode = ModeAi /\ model
        /\ req[r2].route = "tts" /\ req[r2].text = Undef

\* C9: every 200 response of the JSON endpoints carries a result that is a
\* string; a reply that yields none is answered 500 with an error field.
C9_ResultIsString ==
    \A r \in Answered :
        IsJson(r) =>
            /\ Response(r).status \in {200, 500}
            /\ Response(r).status = 200 => Response(r).body.result.t = "string"
            /\ Response(r).status = 500 => "error" \in DOMAIN Response(r).body

====
